---- MODULE Spec2Model ----
(***************************************************************************)
(* A model of log_analyzer.py: get_last_log, create_report (the            *)
(* accumulation pass over the lines of one log file), summarize_report     *)
(* and the error policy of main.                                           *)
(*                                                                         *)
(* Numbers.  request_time values and every sum of them are floats.  The    *)
(* model draws request times from binary fractions with three fractional   *)
(* bits and stores such a value v as the integer v * Unit, so every value  *)
(* and every sum is exactly representable, as it is in the float of the    *)
(* program.  round(x, ndigits) of Python rounds the exact value of the     *)
(* float to the nearest multiple of 10^-ndigits, ties to even.  With       *)
(* ndigits = 0 and ndigits = 3 the rounded value of a multiple of 1/8 is   *)
(* again a multiple of 1/8; these are the two accuracies the model runs.   *)
(* The derived fields count_perc, time_perc and time_avg are quotients;    *)
(* the model stores them in units of 10^-accuracy.                         *)
(***************************************************************************)
EXTENDS Integers, Sequences, FiniteSets, TLC

VARIABLES
    pc,                  \* position in main / create_report
    exc,                 \* the exception that left main and the line that
                         \* raised it, "" when none
    file,                \* the lines of the log file, in file order
    pos,                 \* number of lines read_file has yielded so far
    accuracy,            \* int(config['REPORT_ACCURACY'])
    size,                \* int(config['REPORT_SIZE'])
    limit,               \* config['ERRORS_PERCENT_LIMIT']: [is_str, val]
    total_requests,
    total_requests_time,
    total_errors,
    report,              \* the dict of create_report, rows in insertion order
    result,              \* the list summarize_report returned (Report.report)
    replay,              \* outcome of a further summarize_report call
    logs_dir,            \* os.listdir(logs_dir), in listing order
    date_format,         \* config['LOG_DATE_FORMAT']
    last_log             \* what get_last_log returned

vars == <<pc, exc, file, pos, accuracy, size, limit, total_requests,
          total_requests_time, total_errors, report, result, replay,
          logs_dir, date_format, last_log>>

logVars == <<logs_dir, date_format, last_log>>

(***************************************************************************)
(* Bounds of the model.                                                    *)
(***************************************************************************)
MaxLines == 3
MaxSize == 2
MaxLimit == 1
MaxFiles == 2

Unit == 2 ^ 3

Accuracies == {0, 3}
Sizes == 0 .. MaxSize
\* ERRORS_PERCENT_LIMIT: the int of CONFIG, or the str parse_config returns.
Limits == [is_str : BOOLEAN, val : 0 .. MaxLimit]
RemoteAddrs == {"10.0.0.1", "10.0.0.2"}
NumericTexts == {"0", "0.25", "0.5", "1"}
RequestTimeTexts == NumericTexts \cup {"-"}

(***************************************************************************)
(* Sequence helpers.                                                       *)
(***************************************************************************)
SeqsUpTo(S, n) == UNION {[1 .. k -> S] : k \in 0 .. n}

RECURSIVE Pow10(_)
Pow10(n) == IF n = 0 THEN 1 ELSE 10 * Pow10(n - 1)

RECURSIVE SumSeq(_)
SumSeq(s) == IF s = <<>> THEN 0 ELSE Head(s) + SumSeq(Tail(s))

\* sorted(s, key): the stable ascending sort, as the permutation of the
\* indices of s; keys[i] is the key of s[i].
SortedIndices(keys) ==
    LET n == Len(keys)
        rank(i) == 1 + Cardinality({j \in 1 .. n :
                        keys[j] < keys[i] \/ (keys[j] = keys[i] /\ j < i)})
    IN  [p \in 1 .. n |-> CHOOSE i \in 1 .. n : rank(i) = p]

(***************************************************************************)
(* round(), float().                                                       *)
(***************************************************************************)
\* The integer nearest to n / d, ties to even (n >= 0, d > 0).
HalfEven(n, d) ==
    LET q == n \div d
        r == n % d
    IN  IF 2 * r < d THEN q
        ELSE IF 2 * r > d THEN q + 1
        ELSE IF q % 2 = 0 THEN q ELSE q + 1

\* round(n / d, ndigits), in units of 10^-ndigits.
round_ratio(n, d, ndigits) == HalfEven(n * Pow10(ndigits), d)

\* round(v, ndigits) of a value held in units of 1/Unit, in the same units.
round(v, ndigits) ==
    (HalfEven(v * Pow10(ndigits), Unit) * Unit) \div Pow10(ndigits)

\* float(text): [ok |-> FALSE] is ValueError.
float(text) ==
    CASE text = "0"    -> [ok |-> TRUE, v |-> 0]
      [] text = "0.25" -> [ok |-> TRUE, v |-> 2]
      [] text = "0.5"  -> [ok |-> TRUE, v |-> 4]
      [] text = "1"    -> [ok |-> TRUE, v |-> 8]
      [] OTHER         -> [ok |-> FALSE, v |-> 0]

(***************************************************************************)
(* Lines of the log file and parse_line.                                   *)
(***************************************************************************)
\* A line that LOG_LINE_PATTERN matches, by the two groups create_report reads.
MatchingLines ==
    [matches : {TRUE}, remote_addr : RemoteAddrs, request_time : RequestTimeTexts]

\* A line the pattern does not match.
Garbage == [matches |-> FALSE, remote_addr |-> "", request_time |-> ""]

Lines == MatchingLines \cup {Garbage}

\* parse_line: the groupdict, or None.
parse_line(line) ==
    IF line.matches
    THEN [is_none |-> FALSE, remote_addr |-> line.remote_addr,
          request_time |-> line.request_time]
    ELSE [is_none |-> TRUE, remote_addr |-> "", request_time |-> ""]

(***************************************************************************)
(* The rows of report: one dict per remote_addr.  'requests' is popped by  *)
(* summarize_report and the derived keys are added by it; has_requests and *)
(* has_stats say which keys the dict holds.                                *)
(***************************************************************************)
NewRow(url) ==
    [url |-> url, count |-> 0, time_sum |-> 0,
     has_requests |-> TRUE, requests |-> <<>>, has_stats |-> FALSE,
     count_perc |-> 0, time_perc |-> 0, time_avg |-> 0,
     time_max |-> 0, time_med |-> 0]

IndexOf(rep, url) ==
    IF \E i \in 1 .. Len(rep) : rep[i].url = url
    THEN CHOOSE i \in 1 .. Len(rep) : rep[i].url = url
    ELSE 0

\* report[url] of the defaultdict: the row is created when it is missing.
WithRow(rep, url) == IF IndexOf(rep, url) = 0 THEN Append(rep, NewRow(url)) ELSE rep

\* The sum is replaced, not added to.
add_rounded_assigned(time_sum, request_time, ndigits) == round(request_time, ndigits)

\* time_sum = round(time_sum + request_time, accuracy)
add_rounded(time_sum, request_time, ndigits) == round(time_sum + request_time, ndigits)

\* 'requests' is set to [] on every sighting of the key, not on the first.
update_row_reset(rep, url, request_time, ndigits) ==
    LET r == WithRow(rep, url)
        i == IndexOf(r, url)
    IN  [r EXCEPT ![i] =
            [@ EXCEPT !.count = @ + 1,
                      !.time_sum = round(@ + request_time, ndigits),
                      !.requests = <<request_time>>]]

\* Lines 180-186 of create_report: the update of report[url].
update_row(rep, url, request_time, ndigits) ==
    LET r == WithRow(rep, url)
        i == IndexOf(r, url)
    IN  [r EXCEPT ![i] =
            [@ EXCEPT !.count = @ + 1,
                      !.time_sum = add_rounded(@, request_time, ndigits),
                      !.requests = Append(@, request_time)]]

(***************************************************************************)
(* summarize_report.                                                       *)
(***************************************************************************)
Max(s) == CHOOSE x \in {s[i] : i \in 1 .. Len(s)} : \A i \in 1 .. Len(s) : s[i] <= x

\* statistics.median
median(s) ==
    LET n == Len(s)
        o == SortedIndices(s)
    IN  IF n % 2 = 1 THEN s[o[(n + 1) \div 2]]
        ELSE (s[o[n \div 2]] + s[o[n \div 2 + 1]]) \div 2

\* sorted(report.values(), key=time_sum)[:top_reports_size], as indices of report.
top_reports(rep, sz) ==
    LET top_reports_size == IF sz < Len(rep) THEN sz ELSE Len(rep)
        o == SortedIndices([i \in 1 .. Len(rep) |-> rep[i].time_sum])
    IN  [p \in 1 .. top_reports_size |-> o[p]]

\* The loop of lines 146-163 from the p-th selected row on.  The rows are the
\* dicts of report themselves, so report changes with them.
RECURSIVE summarize_rows(_, _, _, _, _, _)
summarize_rows(rep, top, p, requests_total, time_total, ndigits) ==
    IF p > Len(top) THEN [report |-> rep, exc |-> ""]
    ELSE LET i == top[p]
             row == rep[i]
             url_requests == row.requests
             popped == [row EXCEPT !.has_requests = FALSE, !.requests = <<>>]
         IN  IF ~row.has_requests
             THEN [report |-> rep, exc |-> "KeyError:147"]
             ELSE IF requests_total = 0
             THEN [report |-> [rep EXCEPT ![i] = popped], exc |-> "ZeroDivisionError:151"]
             ELSE IF time_total = 0
             THEN [report |-> [rep EXCEPT ![i] = popped], exc |-> "ZeroDivisionError:154"]
             ELSE summarize_rows(
                    [rep EXCEPT ![i] =
                        [popped EXCEPT
                            !.has_stats = TRUE,
                            !.count_perc = round_ratio(100 * row.count, requests_total, ndigits),
                            !.time_perc = round_ratio(100 * row.time_sum, time_total, ndigits),
                            !.time_avg = round_ratio(row.time_sum, Unit * row.count, ndigits),
                            !.time_max = Max(url_requests),
                            !.time_med = median(url_requests)]],
                    top, p + 1, requests_total, time_total, ndigits)

summarize_report(rep, requests_total, time_total, sz, ndigits) ==
    LET top == top_reports(rep, sz)
        done == summarize_rows(rep, top, 1, requests_total, time_total, ndigits)
    IN  [exc |-> done.exc,
         report |-> done.report,
         rows |-> [p \in 1 .. Len(top) |-> done.report[top[p]]]]

(***************************************************************************)
(* create_report and main from the call of create_report on.               *)
(***************************************************************************)
NoReplay == [called |-> FALSE, exc |-> "", rows |-> <<>>]
NoLog == [is_none |-> TRUE, log_name |-> [digits |-> <<>>, ext |-> ""],
          log_date |-> <<0, 0, 0>>]

Init ==
    /\ pc = "loop"
    /\ exc = ""
    /\ file \in SeqsUpTo(Lines, MaxLines)
    /\ pos = 0
    /\ accuracy \in Accuracies
    /\ size = 0
    /\ limit = [is_str |-> FALSE, val |-> 0]
    /\ total_requests = 0
    /\ total_requests_time = 0
    /\ total_errors = 0
    /\ report = <<>>
    /\ result = <<>>
    /\ replay = NoReplay
    /\ logs_dir = <<>>
    /\ date_format = "%y%m%d"
    /\ last_log = NoLog

\* One pass of the for loop, lines 170-189.
ProcessLine ==
    /\ pc = "loop"
    /\ pos < Len(file)
    /\ pos' = pos + 1
    /\ total_requests' = total_requests + 1
    /\ LET request == parse_line(file[pos + 1])
           request_time == float(request.request_time)
       IN  IF request.is_none
           THEN \* request['remote_addr'] on None: TypeError, which is not caught
                /\ pc' = "raised"
                /\ exc' = "TypeError:175"
                /\ UNCHANGED <<total_errors, report, total_requests_time>>
           ELSE IF ~request_time.ok
           THEN \* ValueError: counted, and the loop is left
                /\ total_errors' = total_errors + 1
                /\ pc' = "line190"
                /\ UNCHANGED <<exc, report, total_requests_time>>
           ELSE /\ report' = update_row(report, request.remote_addr,
                                        request_time.v, accuracy)
                /\ total_requests_time' =
                       add_rounded(total_requests_time, request_time.v, accuracy)
                /\ UNCHANGED <<pc, exc, total_errors>>
    /\ UNCHANGED <<file, accuracy, size, limit, result, replay>>
    /\ UNCHANGED logVars

\* read_file is exhausted.
EndOfInput ==
    /\ pc = "loop"
    /\ pos = Len(file)
    /\ pc' = "line190"
    /\ UNCHANGED <<exc, file, pos, accuracy, size, limit, total_requests,
                   total_requests_time, total_errors, report, result, replay>>
    /\ UNCHANGED logVars

\* Lines 190-194: summarize_report and the Report.  REPORT_SIZE is read-only
\* configuration; the model draws it where it is first used.
CreateReportReturn ==
    /\ pc = "line190"
    /\ \E sz \in Sizes :
         LET s == summarize_report(report, total_requests, total_requests_time,
                                   sz, accuracy)
         IN  /\ size' = sz
             /\ report' = s.report
             /\ IF s.exc # ""
                THEN /\ pc' = "raised"
                     /\ exc' = s.exc
                     /\ UNCHANGED result
                ELSE /\ pc' = "line228"
                     /\ result' = s.rows
                     /\ UNCHANGED exc
    /\ UNCHANGED <<file, pos, accuracy, limit, total_requests,
                   total_requests_time, total_errors, replay>>
    /\ UNCHANGED logVars

\* Lines 228-245 of main.
MainErrorsPolicy ==
    /\ pc = "line228"
    /\ \E l \in Limits :
         /\ limit' = l
         /\ IF total_requests = 0
            THEN /\ pc' = "raised"
                 /\ exc' = "ZeroDivisionError:228"
            ELSE LET errors_percent == HalfEven(100 * total_errors, total_requests)
                 IN  IF l.is_str
                     THEN \* int > str
                          /\ pc' = "raised"
                          /\ exc' = "TypeError:229"
                     ELSE IF errors_percent > l.val /\ l.val > 0
                     THEN /\ pc' = "not_rendered"
                          /\ UNCHANGED exc
                     ELSE /\ pc' = "rendered"
                          /\ UNCHANGED exc
    /\ UNCHANGED <<file, pos, accuracy, size, total_requests,
                   total_requests_time, total_errors, report, result, replay>>
    /\ UNCHANGED logVars

Next == ProcessLine \/ EndOfInput \/ CreateReportReturn \/ MainErrorsPolicy

Spec == Init /\ [][Next]_vars

(***************************************************************************)
(* A caller that calls summarize_report once more, on the mapping the      *)
(* first call was given and with the same arguments.                       *)
(***************************************************************************)
SummarizeAgain ==
    /\ pc = "line228"
    /\ LET s == summarize_report(report, total_requests, total_requests_time,
                                 size, accuracy)
       IN  /\ replay' = [called |-> TRUE, exc |-> s.exc,
                         rows |-> IF s.exc = "" THEN s.rows ELSE <<>>]
           /\ report' = s.report
    /\ pc' = "replayed"
    /\ UNCHANGED <<exc, file, pos, accuracy, size, limit, total_requests,
                   total_requests_time, total_errors, result>>
    /\ UNCHANGED logVars

NextSummarize == ProcessLine \/ EndOfInput \/ CreateReportReturn \/ SummarizeAgain

SpecSummarize == Init /\ [][NextSummarize]_vars

(***************************************************************************)
(* get_last_log.  A file name is the date text the template places, as its *)
(* two-digit fields in order, and the extension that follows; every other  *)
(* name (OtherName, 'test.txt' of the tests) has no date text.  Names that *)
(* carry a date all start with the template's literal text, so they        *)
(* compare as str by their fields and then by their extension.             *)
(***************************************************************************)
DateFormats == {"%y%m%d", "%d%m%y"}
FieldTexts == 1 .. 2
LogNames == [digits : [1 .. 3 -> FieldTexts], ext : {"", ".gz"}]
OtherName == [digits |-> <<>>, ext |-> ".txt"]
FileNames == LogNames \cup {OtherName}

\* a < b for str
ext_lt(a, b) == (a = "" /\ b # "") \/ (a = ".gz" /\ b = ".txt")

RECURSIVE seq_lt(_, _)
seq_lt(a, b) ==
    IF a = <<>> THEN b # <<>>
    ELSE IF b = <<>> THEN FALSE
    ELSE IF Head(a) # Head(b) THEN Head(a) < Head(b)
    ELSE seq_lt(Tail(a), Tail(b))

str_lt(a, b) ==
    IF Len(a.digits) = Len(b.digits)
    THEN seq_lt(a.digits, b.digits) \/ (a.digits = b.digits /\ ext_lt(a.ext, b.ext))
    ELSE Len(a.digits) > Len(b.digits)     \* 'nginx...' < 'test.txt'

\* datetime.strptime of the date text: <<year, month, day>>, or None.
strptime(digits, format) ==
    IF Len(digits) # 3 THEN [is_none |-> TRUE, date |-> <<0, 0, 0>>]
    ELSE LET date == IF format = "%y%m%d"
                     THEN <<digits[1], digits[2], digits[3]>>
                     ELSE <<digits[3], digits[2], digits[1]>>
         IN  IF date[2] \in 1 .. 12 /\ date[3] \in 1 .. 31
             THEN [is_none |-> FALSE, date |-> date]
             ELSE [is_none |-> TRUE, date |-> <<0, 0, 0>>]

fetch_date_from_file_name(file_name, format) ==
    IF file_name.ext \in {"", ".gz"}
    THEN strptime(file_name.digits, format)
    ELSE [is_none |-> TRUE, date |-> <<0, 0, 0>>]

LogEntry(log_name, format) ==
    LET d == fetch_date_from_file_name(log_name, format)
    IN  [is_none |-> d.is_none, log_name |-> log_name, log_date |-> d.date]

\* a > b for the LogEntry tuples (log_name, log_date)
entry_gt(a, b) ==
    \/ str_lt(b.log_name, a.log_name)
    \/ a.log_name = b.log_name /\ seq_lt(b.log_date, a.log_date)

\* max(): the first of the largest items.
RECURSIVE max_entry(_, _)
max_entry(best, rest) ==
    IF rest = <<>> THEN best
    ELSE max_entry(IF entry_gt(Head(rest), best) THEN Head(rest) ELSE best, Tail(rest))

get_last_log(listing, format) ==
    LET logs_in_directory == [i \in 1 .. Len(listing) |-> LogEntry(listing[i], format)]
        matching == SelectSeq(logs_in_directory, LAMBDA e : ~e.is_none)
    IN  IF matching = <<>> THEN NoLog     \* max() of nothing: ValueError, None
        ELSE max_entry(Head(matching), Tail(matching))

InitLastLog ==
    /\ pc = "line206"
    /\ exc = ""
    /\ file = <<>>
    /\ pos = 0
    /\ accuracy = 0
    /\ size = 0
    /\ limit = [is_str |-> FALSE, val |-> 0]
    /\ total_requests = 0
    /\ total_requests_time = 0
    /\ total_errors = 0
    /\ report = <<>>
    /\ result = <<>>
    /\ replay = NoReplay
    /\ logs_dir \in {l \in SeqsUpTo(FileNames, MaxFiles) :
                        \A i, j \in 1 .. Len(l) : i # j => l[i] # l[j]}
    /\ date_format \in DateFormats
    /\ last_log = NoLog

\* Lines 206-212 of main.
MainGetLastLog ==
    /\ pc = "line206"
    /\ last_log' = get_last_log(logs_dir, date_format)
    /\ pc' = IF last_log'.is_none THEN "returned" ELSE "line213"
    /\ UNCHANGED <<exc, file, pos, accuracy, size, limit, total_requests,
                   total_requests_time, total_errors, report, result, replay,
                   logs_dir, date_format>>

NextLastLog == MainGetLastLog

SpecLastLog == InitLastLog /\ [][NextLastLog]_vars

(***************************************************************************)
(* What the file says, for the statements below.                           *)
(***************************************************************************)
IsAggregated(line) == line.matches /\ float(line.request_time).ok
IsBadTime(line) == line.matches /\ ~float(line.request_time).ok

\* The request times of the aggregated lines among the first n lines, in file
\* order: of one remote_addr, and of all.
TimesOf(url, n) ==
    LET kept == SelectSeq(SubSeq(file, 1, n),
                          LAMBDA l : IsAggregated(l) /\ l.remote_addr = url)
    IN  [i \in 1 .. Len(kept) |-> float(kept[i].request_time).v]

AllTimes(n) ==
    LET kept == SelectSeq(SubSeq(file, 1, n), IsAggregated)
    IN  [i \in 1 .. Len(kept) |-> float(kept[i].request_time).v]

\* acc := round(acc + d, ndigits) over s, in order, from acc.
RECURSIVE RoundedFold(_, _, _)
RoundedFold(s, acc, ndigits) ==
    IF s = <<>> THEN acc
    ELSE RoundedFold(Tail(s), round(acc + Head(s), ndigits), ndigits)

Orders(n) == {f \in [1 .. n -> 1 .. n] : \A i, j \in 1 .. n : i # j => f[i] # f[j]}
Permuted(s, f) == [i \in 1 .. Len(s) |-> s[f[i]]]

\* d lies exactly halfway between two multiples of 10^-ndigits.
IsTie(d, ndigits) == 2 * ((d * Pow10(ndigits)) % Unit) = Unit

CountSum == SumSeq([i \in 1 .. Len(report) |-> report[i].count])
InPass == pc \in {"loop", "line190"}

(***************************************************************************)
(* C1.  A line that matches but whose request_time is not numeric adds 1   *)
(* to total_errors, changes no aggregate and does not stop the pass: in a  *)
(* file all of whose lines match, the pass ends only when every line was   *)
(* read, with every line counted in total_requests, every non-numeric one  *)
(* in total_errors and every numeric one in its aggregate.                 *)
(***************************************************************************)
C1_BadTimeDoesNotStopThePass ==
    (pc = "line190" /\ \A i \in 1 .. Len(file) : file[i].matches) =>
        /\ pos = Len(file)
        /\ total_requests = Len(file)
        /\ total_errors = Cardinality({i \in 1 .. Len(file) : IsBadTime(file[i])})
        /\ \A url \in RemoteAddrs :
             LET times == TimesOf(url, Len(file))
             IN  IF times = <<>> THEN IndexOf(report, url) = 0
                 ELSE /\ IndexOf(report, url) # 0
                      /\ report[IndexOf(report, url)].requests = times

(***************************************************************************)
(* C2.  A line the pattern does not match is never fatal: it is counted in *)
(* total_errors and no exception leaves the pass.                          *)
(***************************************************************************)
C2_NoMatchIsNotFatal ==
    \A i \in 1 .. pos :
        ~file[i].matches =>
            /\ exc # "TypeError:175"
            /\ total_errors >= Cardinality({j \in 1 .. i : ~file[j].matches})

(***************************************************************************)
(* C3.  summarize_report returns min(size, number of aggregates) rows, the *)
(* ones with the largest time_sum, ordered by time_sum descending.         *)
(***************************************************************************)
C3_TopRowsByTimeSumDescending ==
    pc = "line228" =>
        /\ Len(result) = (IF size < Len(report) THEN size ELSE Len(report))
        /\ \A p, q \in 1 .. Len(result) :
             p < q => result[p].time_sum >= result[q].time_sum
        /\ \A i \in 1 .. Len(report) :
             (\A p \in 1 .. Len(result) : result[p].url # report[i].url) =>
                 \A p \in 1 .. Len(result) : report[i].time_sum <= result[p].time_sum

(***************************************************************************)
(* C4.  After every processed line and in the Report,                      *)
(* total_requests = total_errors + the sum of count over all aggregates.   *)
(***************************************************************************)
C4_RequestsBalance == total_requests = total_errors + CountSum

(***************************************************************************)
(* C5.  With total_requests = 0 or total_time = 0 at summarization time    *)
(* the run divides nothing by zero and issues no rendering request.        *)
(***************************************************************************)
C5_NoDivisionByZero ==
    /\ exc \notin {"ZeroDivisionError:151", "ZeroDivisionError:154",
                   "ZeroDivisionError:228"}
    /\ pc = "rendered" => (total_requests # 0 /\ total_requests_time # 0)

(***************************************************************************)
(* C6.  summarize_report is idempotent: the first call leaves the mapping  *)
(* as it read it, and a second call with the same arguments succeeds and   *)
(* returns what the first returned.                                        *)
(***************************************************************************)
C6_SummarizeIdempotent ==
    /\ pc \in {"line228", "replayed"} =>
          \A i \in 1 .. Len(report) :
              /\ report[i].has_requests
              /\ report[i].requests = TimesOf(report[i].url, pos)
              /\ ~report[i].has_stats
    /\ pc = "replayed" => (replay.exc = "" /\ replay.rows = result)

(***************************************************************************)
(* C7.  main calls render_report exactly when the error percentage         *)
(* round(100 * total_errors / total_requests) does not exceed              *)
(* ERRORS_PERCENT_LIMIT, for every limit, the default 0 included.          *)
(***************************************************************************)
C7_RenderIffTolerable ==
    (total_requests > 0 /\ (pc \in {"rendered", "not_rendered"} \/ exc = "TypeError:229")) =>
        ((pc = "rendered") <=> (HalfEven(100 * total_errors, total_requests) <= limit.val))

(***************************************************************************)
(* C8.  get_last_log returns None when no name of the directory matches    *)
(* the template and the date format, and otherwise the entry of a matching *)
(* name whose date is the latest, whatever the listing order and the date  *)
(* format.                                                                 *)
(***************************************************************************)
MatchingDates ==
    {fetch_date_from_file_name(logs_dir[i], date_format).date :
        i \in {j \in 1 .. Len(logs_dir) :
                  ~fetch_date_from_file_name(logs_dir[j], date_format).is_none}}

C8_LastLogIsLatest ==
    pc \in {"returned", "line213"} =>
        IF MatchingDates = {} THEN last_log.is_none
        ELSE /\ ~last_log.is_none
             /\ \E i \in 1 .. Len(logs_dir) : logs_dir[i] = last_log.log_name
             /\ last_log.log_date =
                    fetch_date_from_file_name(last_log.log_name, date_format).date
             /\ \A d \in MatchingDates : ~seq_lt(last_log.log_date, d)

(***************************************************************************)
(* C9.  During the accumulation pass every aggregate has count =           *)
(* len(requests) = the number of lines aggregated for its key, requests    *)
(* holds their request times in arrival order, and time_sum is the fold    *)
(* acc := round(acc + d, accuracy) over them from 0; total_requests_time   *)
(* is the same fold over all aggregated request times.                     *)
(***************************************************************************)
C9_AggregatesFollowTheFold ==
    InPass =>
        /\ \A url \in RemoteAddrs :
             LET times == TimesOf(url, pos)
                 i == IndexOf(report, url)
             IN  IF times = <<>> THEN i = 0
                 ELSE /\ i # 0
                      /\ report[i].count = Len(times)
                      /\ Len(report[i].requests) = report[i].count
                      /\ report[i].requests = times
                      /\ report[i].time_sum = RoundedFold(times, 0, accuracy)
        /\ \A i, j \in 1 .. Len(report) : i # j => report[i].url # report[j].url
        /\ total_requests_time = RoundedFold(AllTimes(pos), 0, accuracy)

\* A key seen twice, rounding having changed its sum, beside another key.
C9_Witness ==
    /\ pc = "loop"
    /\ Len(report) = 2
    /\ \E i \in 1 .. 2 :
         /\ report[i].count = 2
         /\ report[i].requests[1] # report[i].requests[2]
         /\ report[i].time_sum # SumSeq(report[i].requests)

(***************************************************************************)
(* C10, as stated.  time_sum of a key does not depend on the arrival order *)
(* of its request times: every permutation of them folds to it.            *)
(***************************************************************************)
C10_OrderIndependent ==
    InPass =>
        \A i \in 1 .. Len(report) :
            \A f \in Orders(Len(report[i].requests)) :
                RoundedFold(Permuted(report[i].requests, f), 0, accuracy)
                    = report[i].time_sum

(***************************************************************************)
(* C10, amended.  time_sum of a key does not depend on the arrival order   *)
(* of its request times when none of them lies exactly halfway between two *)
(* multiples of 10^-accuracy.                                              *)
(***************************************************************************)
C10_OrderIndependentWithoutTies ==
    InPass =>
        \A i \in 1 .. Len(report) :
            (\A k \in 1 .. Len(report[i].requests) :
                 ~IsTie(report[i].requests[k], accuracy)) =>
                \A f \in Orders(Len(report[i].requests)) :
                    RoundedFold(Permuted(report[i].requests, f), 0, accuracy)
                        = report[i].time_sum

\* A key with three request times, not all equal, one of them with more
\* decimal places than accuracy, none a tie.
C10_Witness ==
    /\ InPass
    /\ accuracy = 0
    /\ \E i \in 1 .. Len(report) :
         /\ Len(report[i].requests) = 3
         /\ \A k \in 1 .. 3 : ~IsTie(report[i].requests[k], accuracy)
         /\ \E k \in 1 .. 3 : report[i].requests[k] % Unit # 0
         /\ \E k \in 1 .. 3 : report[i].requests[k] = Unit

====
